---- MODULE Spec2Model ----
(***************************************************************************)
(* Skeletal input over IPC: the host connector (SkeletalInputIPC,          *)
(* src/input/skeletal_input/ipc.rs) and the child process                  *)
(* (xrizer_skeletal_input, src/input/skeletal_input/bin.rs) that owns the  *)
(* secondary OpenXR instance.  Two sequential processes joined by a        *)
(* one-shot rendezvous server and two FIFO channels.                       *)
(***************************************************************************)
EXTENDS Integers, Sequences, FiniteSets, TLC

\* ------------------------------------------------------------- bounds
\* Calls (sync_actions / get_action_states) the host's callers make in a run.
MaxCalls == 3
\* Callers that hold the connector (labels 1..NumCallers of the call in progress).
NumCallers == 2
\* Device poses 0..MaxPose a hand can be in; curls are in units of 1/MaxPose.
MaxPose == 1
\* Events other than session-state changes the runtime queues for the child.
MaxOther == 1
\* Messages a desynchronized peer may have queued ahead of the host.
MaxQueue == 1

VARIABLES
    hostPc,      \* host position: init, accept, idle, recv, dropWait, dropped, gone,
                 \*   panicAccept (accept().unwrap()), panicProtocol (line 72 / 89)
    connection,  \* SkeletalInputIPC.connection: "None" | "Some"
    call,        \* the call in progress: [op, hand, caller], or NoCall
    lastResult,  \* what the last finished call returned, or NoResult
    nCalls,      \* calls begun so far
    sent,        \* requests the host has put on the notification channel
    consumed,    \* replies the host has taken from the result channel
    spawns,      \* Command::spawn() attempts
    spawnFailed, \* the spawn returned Err
    sendTries,   \* connection.sender.send(..) calls made, failed ones included
    dropLog,     \* what Drop for IPCConnection has done, in order
    rendezvous,  \* one-shot server: none, connected, sent (pair in flight), taken
    notifyQ,     \* host -> child channel (notify_sender / notify_receiver)
    resultQ,     \* child -> host channel (result_sender / result_receiver)
    childPc,     \* child position (see ChildRunning)
    proc,        \* child process: none, running, zombie, reaped, gone
    cur,         \* the message the child's loop is handling, or NoMsg
    xrSession,   \* runtime session state: none, IDLE, READY, RUNNING
    xrEvents,    \* runtime event queue polled by the child
    nOther,      \* other events the runtime has queued so far
    synced,      \* action state as of the last xrSyncActions, by subaction path
    nSync        \* xrSyncActions calls the child has made

vars == <<hostPc, connection, call, lastResult, nCalls, sent, consumed, spawns,
          spawnFailed, dropLog, rendezvous, notifyQ, resultQ, childPc, proc, cur,
          xrSession, xrEvents, nOther, synced, nSync, sendTries>>

hostVars == <<hostPc, connection, call, lastResult, nCalls, sent, consumed, spawns,
              spawnFailed, dropLog, sendTries>>
childVars == <<childPc, proc, cur>>
xrVars == <<xrSession, xrEvents, nOther, synced, nSync>>

\* ------------------------------------------------------------- data model
Hands == {"Left", "Right"}
Callers == 1..NumCallers

LeftPath == "/user/hand/left"
RightPath == "/user/hand/right"
Paths == {LeftPath, RightPath}

\* SkeletalInputActionStates: thumb_touch, index_touch: bool; index_curl, rest_curl: f32.
Reading(p) ==
    [thumb_touch |-> (p % 2 = 1), index_touch |-> (p >= 2),
     index_curl |-> p, rest_curl |-> MaxPose - p]
ReadingSet == {Reading(p) : p \in 0..MaxPose}
\* Action state before any xrSyncActions: inactive, all readings zero.
Unsynced == [thumb_touch |-> FALSE, index_touch |-> FALSE, index_curl |-> 0, rest_curl |-> 0]

\* enum IPCMessage
SyncActionsMsg == [type |-> "SyncActions"]
GetHandMsg(is_left) == [type |-> "GetHand", is_left |-> is_left]
HandDataMsg(states) == [type |-> "HandData", states |-> states]
AckMsg == [type |-> "Ack"]
NoMsg == [type |-> "none"]

NoCall == [op |-> "none"]
NoResult == [op |-> "none"]
Disconnected == "Disconnected"

\* ------------------------------------------------------------- endpoints
\* The child's ends (notify_receiver, result_sender) are open while it runs and
\* are closed by its exit, whatever the cause.
ChildRunning == proc = "running"
\* The host's ends (sender, receiver) are closed once the IPCConnection has been
\* dropped or the host process has ended.
HostEnded == hostPc \in {"dropped", "gone", "panicAccept", "panicProtocol"}

Init ==
    /\ hostPc = "init"
    /\ connection = "None"
    /\ call = NoCall
    /\ lastResult = NoResult
    /\ nCalls = 0
    /\ sent = 0
    /\ consumed = 0
    /\ spawns = 0
    /\ spawnFailed = FALSE
    /\ dropLog = <<>>
    /\ rendezvous = "none"
    /\ notifyQ = <<>>
    /\ resultQ = <<>>
    /\ childPc = "none"
    /\ proc = "none"
    /\ cur = NoMsg
    /\ xrSession = "none"
    /\ xrEvents = <<>>
    /\ nOther = 0
    /\ synced = [p \in Paths |-> Unsynced]
    /\ nSync = 0
    /\ sendTries = 0

\* ------------------------------------------------------------- host connector
\* Both operations take &self, and the connector's channel ends are not Sync:
\* whichever caller holds the connector, its calls run one at a time on the
\* host thread (hostPc), each from its send to its return.
\* SkeletalInputIPC::new, up to the spawn: the one-shot server is created and the
\* child is started with IPC=<server name>; a failed spawn leaves connection None.
HostSpawnRetry(ok) ==
    /\ hostPc = "init"
    /\ spawns' = spawns + 1
    /\ IF ok
       THEN /\ hostPc' = "accept"
            /\ proc' = "running"
            /\ childPc' = "start"
            /\ UNCHANGED spawnFailed
       ELSE /\ hostPc' = "init"
            /\ spawnFailed' = TRUE
            /\ UNCHANGED <<proc, childPc>>
    /\ UNCHANGED <<connection, call, lastResult, nCalls, sent, consumed, dropLog,
                   rendezvous, notifyQ, resultQ, cur, xrVars>>
    /\ UNCHANGED sendTries

HostSpawn(ok) ==
    /\ hostPc = "init"
    /\ spawns' = spawns + 1
    /\ IF ok
       THEN /\ hostPc' = "accept"
            /\ proc' = "running"
            /\ childPc' = "start"
            /\ UNCHANGED spawnFailed
       ELSE /\ hostPc' = "idle"
            /\ spawnFailed' = TRUE
            /\ UNCHANGED <<proc, childPc>>
    /\ UNCHANGED <<connection, call, lastResult, nCalls, sent, consumed, dropLog,
                   rendezvous, notifyQ, resultQ, cur, xrVars>>
    /\ UNCHANGED sendTries

\* server.accept().unwrap(): blocks until a client has connected, then reads the
\* one message; the read fails, and unwrap() panics, if the client end is closed
\* with nothing sent.  Nothing here looks at the child's process handle.
HostAccept ==
    /\ hostPc = "accept"
    /\ \/ rendezvous = "sent"
       \/ rendezvous = "connected" /\ ~ChildRunning
    /\ IF rendezvous = "sent"
       THEN /\ connection' = "Some"
            /\ hostPc' = "idle"
            /\ rendezvous' = "taken"
       ELSE /\ hostPc' = "panicAccept"
            /\ UNCHANGED <<connection, rendezvous>>
    /\ UNCHANGED <<call, lastResult, nCalls, sent, consumed, spawns, spawnFailed,
                   dropLog, notifyQ, resultQ, childVars, xrVars>>
    /\ UNCHANGED sendTries

\* connection.sender.send(..) is Ok while the child holds the receiving end.
SendOk == ChildRunning

\* The request get_action_states(hand) sends.
GetHandRequest(hand) == GetHandMsg(hand = "Left")

\* A call on a connector without a connection, or whose send failed.
ReturnDisconnected(op) ==
    /\ lastResult' = op @@ [res |-> Disconnected]
    /\ hostPc' = "idle"
    /\ call' = NoCall

HostSyncActionsNoWait(c) ==
    /\ hostPc = "idle"
    /\ nCalls < MaxCalls
    /\ nCalls' = nCalls + 1
    /\ sendTries' = IF connection = "Some" THEN sendTries + 1 ELSE sendTries
    /\ IF connection = "Some" /\ SendOk
       THEN /\ notifyQ' = Append(notifyQ, SyncActionsMsg)
            /\ sent' = sent + 1
            /\ lastResult' = [op |-> "sync", res |-> "Ok"]
            /\ UNCHANGED <<hostPc, call>>
       ELSE /\ ReturnDisconnected([op |-> "sync"])
            /\ UNCHANGED <<notifyQ, sent>>
    /\ UNCHANGED <<connection, consumed, spawns, spawnFailed, dropLog, rendezvous,
                   resultQ, childVars, xrVars>>

\* sync_actions(), up to the blocking recv().
HostSyncActions(c) ==
    /\ hostPc = "idle"
    /\ nCalls < MaxCalls
    /\ nCalls' = nCalls + 1
    /\ sendTries' = IF connection = "Some" THEN sendTries + 1 ELSE sendTries
    /\ IF connection = "Some" /\ SendOk
       THEN /\ notifyQ' = Append(notifyQ, SyncActionsMsg)
            /\ sent' = sent + 1
            /\ hostPc' = "recv"
            /\ call' = [op |-> "sync", caller |-> c]
            /\ UNCHANGED lastResult
       ELSE /\ ReturnDisconnected([op |-> "sync"])
            /\ UNCHANGED <<notifyQ, sent>>
    /\ UNCHANGED <<connection, consumed, spawns, spawnFailed, dropLog, rendezvous,
                   resultQ, childVars, xrVars>>

\* get_action_states(hand), up to the blocking recv().
HostGetActionStates(c, hand) ==
    /\ hostPc = "idle"
    /\ nCalls < MaxCalls
    /\ nCalls' = nCalls + 1
    /\ sendTries' = IF connection = "Some" THEN sendTries + 1 ELSE sendTries
    /\ IF connection = "Some" /\ SendOk
       THEN /\ notifyQ' = Append(notifyQ, GetHandRequest(hand))
            /\ sent' = sent + 1
            /\ hostPc' = "recv"
            /\ call' = [op |-> "get", hand |-> hand, caller |-> c]
            /\ UNCHANGED lastResult
       ELSE /\ ReturnDisconnected([op |-> "get", hand |-> hand])
            /\ UNCHANGED <<notifyQ, sent>>
    /\ UNCHANGED <<connection, consumed, spawns, spawnFailed, dropLog, rendezvous,
                   resultQ, childVars, xrVars>>

RecvReadyTimeout == TRUE

\* connection.receiver.recv(): a queued message is delivered; with nothing queued
\* it blocks while the child holds the sending end and fails once that is closed.
RecvReady == resultQ /= <<>> \/ ~ChildRunning

SyncMatchAny(msg) == IF msg.type \in {"Ack", "HandData"} THEN "Ok" ELSE "panic"

\* match connection.receiver.recv()? { Ack => Ok(()), msg => panic!(..) }
SyncMatch(msg) == IF msg.type = "Ack" THEN "Ok" ELSE "panic"

\* match connection.receiver.recv()? { HandData(states) => Ok(states), msg => panic!(..) }
GetMatch(msg) == IF msg.type = "HandData" THEN "Ok" ELSE "panic"

HostSyncRecvUnwrap ==
    /\ hostPc = "recv"
    /\ call.op = "sync"
    /\ RecvReady
    /\ IF resultQ /= <<>>
       THEN /\ resultQ' = Tail(resultQ)
            /\ consumed' = consumed + 1
            /\ IF SyncMatch(Head(resultQ)) = "Ok"
               THEN /\ lastResult' = [op |-> "sync", res |-> "Ok"]
                    /\ hostPc' = "idle"
                    /\ call' = NoCall
               ELSE /\ hostPc' = "panicProtocol"
                    /\ UNCHANGED <<lastResult, call>>
       ELSE /\ hostPc' = "panicRecv"
            /\ UNCHANGED <<resultQ, consumed, lastResult, call>>
    /\ UNCHANGED <<connection, nCalls, sent, spawns, spawnFailed, dropLog, rendezvous,
                   notifyQ, childVars, xrVars>>
    /\ UNCHANGED sendTries

HostSyncRecvDisconnects ==
    /\ hostPc = "recv"
    /\ call.op = "sync"
    /\ RecvReady
    /\ IF resultQ /= <<>>
       THEN /\ resultQ' = Tail(resultQ)
            /\ consumed' = consumed + 1
            /\ IF SyncMatch(Head(resultQ)) = "Ok"
               THEN /\ lastResult' = [op |-> "sync", res |-> "Ok"]
                    /\ hostPc' = "idle"
                    /\ call' = NoCall
               ELSE /\ hostPc' = "panicProtocol"
                    /\ UNCHANGED <<lastResult, call>>
            /\ UNCHANGED connection
       ELSE /\ ReturnDisconnected([op |-> "sync"])
            /\ connection' = "None"
            /\ UNCHANGED <<resultQ, consumed>>
    /\ UNCHANGED <<nCalls, sent, spawns, spawnFailed, dropLog, rendezvous,
                   notifyQ, childVars, xrVars>>
    /\ UNCHANGED sendTries

\* sync_actions(), from recv() on.
HostSyncRecv ==
    /\ hostPc = "recv"
    /\ call.op = "sync"
    /\ RecvReady
    /\ IF resultQ /= <<>>
       THEN /\ resultQ' = Tail(resultQ)
            /\ consumed' = consumed + 1
            /\ IF SyncMatch(Head(resultQ)) = "Ok"
               THEN /\ lastResult' = [op |-> "sync", res |-> "Ok"]
                    /\ hostPc' = "idle"
                    /\ call' = NoCall
               ELSE /\ hostPc' = "panicProtocol"
                    /\ UNCHANGED <<lastResult, call>>
       ELSE /\ ReturnDisconnected([op |-> "sync"])
            /\ UNCHANGED <<resultQ, consumed>>
    /\ UNCHANGED <<connection, nCalls, sent, spawns, spawnFailed, dropLog, rendezvous,
                   notifyQ, childVars, xrVars>>
    /\ UNCHANGED sendTries

\* get_action_states(hand), from recv() on.
HostGetRecv ==
    /\ hostPc = "recv"
    /\ call.op = "get"
    /\ RecvReady
    /\ IF resultQ /= <<>>
       THEN /\ resultQ' = Tail(resultQ)
            /\ consumed' = consumed + 1
            /\ IF GetMatch(Head(resultQ)) = "Ok"
               THEN /\ lastResult' = [op |-> "get", hand |-> call.hand, res |-> "Ok",
                                      val |-> Head(resultQ).states]
                    /\ hostPc' = "idle"
                    /\ call' = NoCall
               ELSE /\ hostPc' = "panicProtocol"
                    /\ UNCHANGED <<lastResult, call>>
       ELSE /\ ReturnDisconnected([op |-> "get", hand |-> call.hand])
            /\ UNCHANGED <<resultQ, consumed>>
    /\ UNCHANGED <<connection, nCalls, sent, spawns, spawnFailed, dropLog, rendezvous,
                   notifyQ, childVars, xrVars>>
    /\ UNCHANGED sendTries

\* self.child.kill(): SIGKILL reaches a child that runs or is a zombie; it fails
\* (ESRCH) when the process has already been reaped outside this handle.
KillOk == proc \in {"running", "zombie"}

HostDropBailOnError ==
    /\ hostPc = "idle"
    /\ IF connection = "None"
       THEN /\ hostPc' = "dropped"
            /\ UNCHANGED <<dropLog, proc, childPc>>
       ELSE /\ hostPc' = IF KillOk THEN "dropWait" ELSE "dropped"
            /\ dropLog' = Append(dropLog, IF KillOk THEN "kill" ELSE "kill_failed")
            /\ proc' = IF proc = "running" THEN "zombie" ELSE proc
            /\ childPc' = IF proc = "running" THEN "killed" ELSE childPc
    /\ UNCHANGED <<connection, call, lastResult, nCalls, sent, consumed, spawns,
                   spawnFailed, rendezvous, notifyQ, resultQ, cur, xrVars>>
    /\ UNCHANGED sendTries

\* The connector goes out of scope.  Without a connection nothing runs; with one,
\* Drop for IPCConnection starts with kill(), logging its error.
HostDrop ==
    /\ hostPc = "idle"
    /\ IF connection = "None"
       THEN /\ hostPc' = "dropped"
            /\ UNCHANGED <<dropLog, proc, childPc>>
       ELSE /\ hostPc' = "dropWait"
            /\ dropLog' = Append(dropLog, IF KillOk THEN "kill" ELSE "kill_failed")
            /\ proc' = IF proc = "running" THEN "zombie" ELSE proc
            /\ childPc' = IF proc = "running" THEN "killed" ELSE childPc
    /\ UNCHANGED <<connection, call, lastResult, nCalls, sent, consumed, spawns,
                   spawnFailed, rendezvous, notifyQ, resultQ, cur, xrVars>>
    /\ UNCHANGED sendTries

HostDropNoReap ==
    /\ hostPc = "dropWait"
    /\ hostPc' = "dropped"
    /\ UNCHANGED <<connection, call, lastResult, nCalls, sent, consumed, spawns,
                   spawnFailed, dropLog, rendezvous, notifyQ, resultQ, childVars, xrVars>>
    /\ UNCHANGED sendTries

\* let _ = self.child.wait(): returns once the child is no longer running, reaping
\* it; its error (nothing left to reap) is discarded.  The endpoints drop after it.
HostDropWait ==
    /\ hostPc = "dropWait"
    /\ ~ChildRunning
    /\ proc' = IF proc = "zombie" THEN "reaped" ELSE proc
    /\ dropLog' = Append(dropLog, "wait")
    /\ hostPc' = "dropped"
    /\ UNCHANGED <<connection, call, lastResult, nCalls, sent, consumed, spawns,
                   spawnFailed, rendezvous, notifyQ, resultQ, childPc, cur, xrVars>>
    /\ UNCHANGED sendTries

\* The host process ends without running Drop (exit or abort of the application).
HostAbort ==
    /\ hostPc \in {"accept", "idle", "recv"}
    /\ hostPc' = "gone"
    /\ UNCHANGED <<connection, call, lastResult, nCalls, sent, consumed, spawns,
                   spawnFailed, dropLog, rendezvous, notifyQ, resultQ, childVars, xrVars>>
    /\ UNCHANGED sendTries

\* ------------------------------------------------------------- child process
\* A failed unwrap() or the protocol panic: the panic hook aborts the process.
ChildAbort(pc) ==
    /\ childPc' = pc
    /\ proc' = "zombie"

\* main returns after the loop's break.
ChildExit ==
    /\ childPc' = "exited"
    /\ proc' = "zombie"

ChildConnectInitFirst ==
    /\ ChildRunning
    /\ childPc = "start"
    /\ IF hostPc = "accept"
       THEN /\ childPc' = "connected"
            /\ rendezvous' = "connected"
            /\ xrSession' = "IDLE"
            /\ UNCHANGED proc
       ELSE /\ ChildAbort("aborted")
            /\ UNCHANGED <<rendezvous, xrSession>>
    /\ UNCHANGED <<hostVars, notifyQ, resultQ, cur, xrEvents, nOther, synced, nSync>>

\* env::var("IPC").unwrap(); IpcSender::connect(server0_name).unwrap()
ChildConnect ==
    /\ ChildRunning
    /\ childPc = "start"
    /\ IF hostPc = "accept"
       THEN /\ childPc' = "connected"
            /\ rendezvous' = "connected"
            /\ UNCHANGED proc
       ELSE /\ ChildAbort("aborted")
            /\ UNCHANGED rendezvous
    /\ UNCHANGED <<hostVars, notifyQ, resultQ, cur, xrVars>>

\* The two channels are created and (notify_sender, result_receiver) is sent over
\* the rendezvous connection; the child keeps notify_receiver and result_sender.
ChildHandshake ==
    /\ ChildRunning
    /\ childPc = "connected"
    /\ IF hostPc = "accept"
       THEN /\ childPc' = "initializing"
            /\ rendezvous' = "sent"
            /\ UNCHANGED proc
       ELSE /\ ChildAbort("aborted")
            /\ UNCHANGED rendezvous
    /\ UNCHANGED <<hostVars, notifyQ, resultQ, cur, xrVars>>

\* SkeletalInputXr::new, up to the poll loop: instance, system and session.
ChildCreateSession ==
    /\ ChildRunning
    /\ childPc = "initializing"
    /\ childPc' = "waitingForReady"
    /\ xrSession' = "IDLE"
    /\ xrEvents' = Append(xrEvents, [kind |-> "SessionStateChanged", state |-> "IDLE"])
    /\ UNCHANGED <<hostVars, rendezvous, notifyQ, resultQ, proc, cur, nOther, synced>>
    /\ UNCHANGED nSync

IsReadyAnyEvent(ev) == ev.kind \in {"SessionStateChanged", "Other"}

IsReadyAnyState(ev) == ev.kind = "SessionStateChanged"

IsReadyFocused(ev) == ev.kind = "SessionStateChanged" /\ ev.state = "FOCUSED"

\* One turn of the poll loop: poll_event() hands over the next queued event, if
\* any; only SessionStateChanged with state READY breaks out of the loop.
IsReady(ev) == ev.kind = "SessionStateChanged" /\ ev.state = "READY"

ChildPollEvent ==
    /\ ChildRunning
    /\ childPc = "waitingForReady"
    /\ IF xrEvents = <<>>
       THEN UNCHANGED <<xrEvents, childPc>>
       ELSE /\ xrEvents' = Tail(xrEvents)
            /\ childPc' = IF IsReady(Head(xrEvents)) THEN "attaching" ELSE childPc
    /\ UNCHANGED <<hostVars, rendezvous, notifyQ, resultQ, proc, cur, xrSession, nOther,
                   synced>>
    /\ UNCHANGED nSync

\* session.begin, the action set and its actions, the suggested bindings and
\* attach_action_sets.
ChildAttach ==
    /\ ChildRunning
    /\ childPc = "attaching"
    /\ childPc' = "serving"
    /\ xrSession' = "RUNNING"
    /\ UNCHANGED <<hostVars, rendezvous, notifyQ, resultQ, proc, cur, xrEvents, nOther,
                   synced>>
    /\ UNCHANGED nSync

DispatchAllSync(msg) ==
    IF msg.type \in {"SyncActions", "GetHand"} THEN "syncing" ELSE "panicProtocol"

DispatchIgnoreOther(msg) ==
    IF msg.type = "SyncActions" THEN "syncing"
    ELSE IF msg.type = "GetHand" THEN "reading"
    ELSE "serving"

\* Where the loop goes with the message notify_receiver.recv() returned.
Dispatch(msg) ==
    IF msg.type = "SyncActions" THEN "syncing"
    ELSE IF msg.type = "GetHand" THEN "reading"
    ELSE "panicProtocol"

\* notify_receiver.recv() at the top of the loop: a queued message is taken and
\* matched; with nothing queued it blocks until the host's sender is closed, and
\* then the loop breaks.
ChildRecv ==
    /\ ChildRunning
    /\ childPc = "serving"
    /\ notifyQ /= <<>> \/ HostEnded
    /\ IF notifyQ /= <<>>
       THEN /\ notifyQ' = Tail(notifyQ)
            /\ IF Dispatch(Head(notifyQ)) = "panicProtocol"
               THEN /\ ChildAbort("panicProtocol")
                    /\ UNCHANGED cur
               ELSE /\ childPc' = Dispatch(Head(notifyQ))
                    /\ cur' = Head(notifyQ)
                    /\ UNCHANGED proc
       ELSE /\ ChildExit
            /\ UNCHANGED <<notifyQ, cur>>
    /\ UNCHANGED <<hostVars, rendezvous, resultQ, xrVars>>

\* SkeletalInputXr::sync_actions: xrSyncActions with the one action set active
\* makes the action state the devices' readings d of that moment.
ChildSyncActions(d) ==
    /\ ChildRunning
    /\ childPc = "syncing"
    /\ synced' = d
    /\ childPc' = "sendAck"
    /\ UNCHANGED <<hostVars, rendezvous, notifyQ, resultQ, proc, cur, xrSession,
                   xrEvents, nOther>>
    /\ nSync' = nSync + 1

\* result_sender.send(..): fails once the host's receiver is closed.
ReplyOk == ~HostEnded

ChildSendAckUnwrap ==
    /\ ChildRunning
    /\ childPc = "sendAck"
    /\ cur' = NoMsg
    /\ IF ReplyOk
       THEN /\ resultQ' = Append(resultQ, AckMsg)
            /\ childPc' = "serving"
            /\ UNCHANGED proc
       ELSE /\ ChildAbort("aborted")
            /\ UNCHANGED resultQ
    /\ UNCHANGED <<hostVars, rendezvous, notifyQ, xrVars>>

ChildSendAckTwice ==
    /\ ChildRunning
    /\ childPc = "sendAck"
    /\ cur' = NoMsg
    /\ IF ReplyOk
       THEN /\ resultQ' = resultQ \o <<AckMsg, AckMsg>>
            /\ childPc' = "serving"
            /\ UNCHANGED proc
       ELSE /\ ChildExit
            /\ UNCHANGED resultQ
    /\ UNCHANGED <<hostVars, rendezvous, notifyQ, xrVars>>

\* if result_sender.send(IPCMessage::Ack).is_err() { break; }
ChildSendAck ==
    /\ ChildRunning
    /\ childPc = "sendAck"
    /\ cur' = NoMsg
    /\ IF ReplyOk
       THEN /\ resultQ' = Append(resultQ, AckMsg)
            /\ childPc' = "serving"
            /\ UNCHANGED proc
       ELSE /\ ChildExit
            /\ UNCHANGED resultQ
    /\ UNCHANGED <<hostVars, rendezvous, notifyQ, xrVars>>

HandPathSwapped(is_left) == IF is_left THEN RightPath ELSE LeftPath

\* string_to_path(if is_left { "/user/hand/left" } else { "/user/hand/right" })
HandPath(is_left) == IF is_left THEN LeftPath ELSE RightPath

\* SkeletalInputXr::get_action_states: the four actions' current_state for the
\* subaction path, as of the last xrSyncActions.
ActionStates(subaction) ==
    [thumb_touch |-> synced[subaction].thumb_touch,
     index_touch |-> synced[subaction].index_touch,
     index_curl |-> synced[subaction].index_curl,
     rest_curl |-> synced[subaction].rest_curl]

\* The GetHand arm: resolve the path, read the states, send HandData.
ChildGetHand ==
    /\ ChildRunning
    /\ childPc = "reading"
    /\ cur' = NoMsg
    /\ IF ReplyOk
       THEN /\ resultQ' = Append(resultQ, HandDataMsg(ActionStates(HandPath(cur.is_left))))
            /\ childPc' = "serving"
            /\ UNCHANGED proc
       ELSE /\ ChildExit
            /\ UNCHANGED resultQ
    /\ UNCHANGED <<hostVars, rendezvous, notifyQ, xrVars>>

\* The child ends at any point of its run: an unwrap() on a failed runtime or IPC
\* call (the hook aborts), or a signal from outside.
ChildCrash ==
    /\ ChildRunning
    /\ ChildAbort("aborted")
    /\ UNCHANGED <<hostVars, rendezvous, notifyQ, resultQ, cur, xrVars>>

\* The exited child is reaped outside the host's Child handle (SIGCHLD ignored
\* by the application, or a waitpid of its own): kill() then has no process left.
ExternalReap ==
    /\ proc = "zombie"
    /\ proc' = "gone"
    /\ UNCHANGED <<hostVars, rendezvous, notifyQ, resultQ, childPc, cur, xrVars>>

\* ------------------------------------------------------------- runtime
\* The runtime moves the created session to READY and queues the event.
RuntimeReady ==
    /\ xrSession = "IDLE"
    /\ xrSession' = "READY"
    /\ xrEvents' = Append(xrEvents, [kind |-> "SessionStateChanged", state |-> "READY"])
    /\ UNCHANGED <<hostVars, rendezvous, notifyQ, resultQ, childVars, nOther, synced>>
    /\ UNCHANGED nSync

\* The runtime queues an event of another kind while the child polls.
RuntimeOtherEvent ==
    /\ childPc = "waitingForReady"
    /\ nOther < MaxOther
    /\ nOther' = nOther + 1
    /\ xrEvents' = Append(xrEvents, [kind |-> "Other", state |-> "none"])
    /\ UNCHANGED <<hostVars, rendezvous, notifyQ, resultQ, childVars, xrSession, synced>>
    /\ UNCHANGED nSync

\* ------------------------------------------------------------- specification
HostStep ==
    \/ HostAccept
    \/ HostSyncRecv
    \/ HostGetRecv
    \/ HostDropWait

ChildStep ==
    \/ ChildConnect
    \/ ChildHandshake
    \/ ChildCreateSession
    \/ ChildPollEvent
    \/ ChildAttach
    \/ ChildRecv
    \/ \E d \in [Paths -> ReadingSet] : ChildSyncActions(d)
    \/ ChildSendAck
    \/ ChildGetHand

Next ==
    \/ \E ok \in BOOLEAN : HostSpawn(ok)
    \/ \E c \in Callers : HostSyncActions(c)
    \/ \E c \in Callers, hand \in Hands : HostGetActionStates(c, hand)
    \/ HostDrop
    \/ HostAbort
    \/ HostStep
    \/ ChildStep
    \/ ChildCrash
    \/ ExternalReap
    \/ RuntimeReady
    \/ RuntimeOtherEvent

Spec == Init /\ [][Next]_vars

\* The connector against a peer that completes the handshake and then queues any
\* IPCMessage on the result channel: what recv() can hand to the two match
\* expressions of the host.
Messages ==
    {SyncActionsMsg, AckMsg} \cup {GetHandMsg(b) : b \in BOOLEAN}
        \cup {HandDataMsg(r) : r \in ReadingSet}

InjectReply(m) ==
    /\ ChildRunning
    /\ childPc = "initializing"
    /\ ~HostEnded
    /\ Len(resultQ) < MaxQueue
    /\ resultQ' = Append(resultQ, m)
    /\ UNCHANGED <<hostVars, rendezvous, notifyQ, childVars, xrVars>>

NextPeer ==
    \/ \E ok \in BOOLEAN : HostSpawn(ok)
    \/ \E c \in Callers : HostSyncActions(c)
    \/ \E c \in Callers, hand \in Hands : HostGetActionStates(c, hand)
    \/ HostDrop
    \/ HostStep
    \/ ChildConnect
    \/ ChildHandshake
    \/ ChildCrash
    \/ \E m \in Messages : InjectReply(m)

SpecPeer == Init /\ [][NextPeer]_vars

\* The child against a peer that holds the notification sender and queues any
\* IPCMessage on it: what notify_receiver.recv() can hand to the match of the
\* serving loop.
InjectRequest(m) ==
    /\ hostPc = "idle"
    /\ connection = "Some"
    /\ ChildRunning
    /\ sent < MaxCalls
    /\ Len(notifyQ) <= MaxQueue
    /\ notifyQ' = Append(notifyQ, m)
    /\ sent' = sent + 1
    /\ UNCHANGED <<hostPc, connection, call, lastResult, nCalls, consumed, spawns,
                   spawnFailed, sendTries, dropLog>>
    /\ UNCHANGED <<rendezvous, resultQ, childVars, xrVars>>

NextRogue ==
    \/ \E ok \in BOOLEAN : HostSpawn(ok)
    \/ HostAccept
    \/ \E m \in Messages : InjectRequest(m)
    \/ ChildStep
    \/ ChildCrash
    \/ RuntimeReady
    \/ RuntimeOtherEvent

SpecRogue == Init /\ [][NextRogue]_vars

\* The host thread and the child process keep running while they have a step to
\* take, and (for the claims that assume it) the runtime reports READY.
FairSpec ==
    /\ Spec
    /\ WF_vars(HostStep)
    /\ WF_vars(ChildStep)
    /\ WF_vars(RuntimeReady)

\* ------------------------------------------------------------- claims
\* The steps of the host's two operations, as seen from outside.
CallBegins == nCalls' = nCalls + 1
CallReturns == hostPc = "recv" /\ hostPc' \in {"idle", "panicProtocol"}
SendsNothing == notifyQ' = notifyQ /\ sent' = sent
ReceivesNothing == resultQ' = resultQ /\ consumed' = consumed

\* C1: after a failed spawn the connector has no connection, and every call of
\* sync_actions() and get_action_states(h) returns Disconnected in one step,
\* with nothing sent, nothing received and no further spawn.
C1_SpawnFailureIsPermanent ==
    /\ [](spawnFailed =>
            /\ connection = "None"
            /\ spawns = 1
            /\ proc = "none"
            /\ sent = 0 /\ consumed = 0
            /\ notifyQ = <<>> /\ resultQ = <<>>
            /\ lastResult.op /= "none" => lastResult.res = Disconnected)
    /\ [][(spawnFailed /\ CallBegins) =>
            /\ lastResult'.res = Disconnected
            /\ hostPc' = "idle"
            /\ SendsNothing /\ ReceivesNothing
            /\ spawns' = spawns]_vars

C1_Witness ==
    /\ spawnFailed
    /\ nCalls >= 2
    /\ lastResult = [op |-> "get", hand |-> "Right", res |-> Disconnected]

\* C2: on an established connection sync_actions() sends exactly one SyncActions,
\* returns only after taking exactly one message from the result channel (or
\* after the channel failed), returns Ok(()) only for Ack, and panics on any
\* other variant.
C2_SyncTakesOneAck ==
    /\ [][(CallBegins /\ hostPc' = "recv" /\ call'.op = "sync") =>
            /\ notifyQ' = Append(notifyQ, SyncActionsMsg)
            /\ sent' = sent + 1
            /\ ReceivesNothing]_vars
    /\ [][(CallReturns /\ call.op = "sync") =>
            /\ SendsNothing
            /\ IF resultQ = <<>>
               THEN /\ ~ChildRunning
                    /\ ReceivesNothing
                    /\ hostPc' = "idle"
                    /\ lastResult' = [op |-> "sync", res |-> Disconnected]
               ELSE /\ resultQ' = Tail(resultQ)
                    /\ consumed' = consumed + 1
                    /\ IF Head(resultQ).type = "Ack"
                       THEN hostPc' = "idle" /\ lastResult' = [op |-> "sync", res |-> "Ok"]
                       ELSE hostPc' = "panicProtocol" /\ lastResult' = lastResult]_vars

C2_Witness ==
    /\ hostPc = "panicProtocol"
    /\ call.op = "sync"
    /\ consumed = 2
    /\ lastResult = [op |-> "sync", res |-> "Ok"]

\* The subaction path a hand stands for.
PathOfHand(hand) == IF hand = "Left" THEN LeftPath ELSE RightPath

\* C3: get_action_states(hand) sends GetHand(hand == Left), returns Ok only for a
\* HandData reply, and the states it returns are the action state of the
\* requested hand's subaction path.
C3_RequestedHandsStates ==
    /\ [][(CallBegins /\ hostPc' = "recv" /\ call'.op = "get") =>
            /\ notifyQ' = Append(notifyQ, GetHandMsg(call'.hand = "Left"))
            /\ sent' = sent + 1]_vars
    /\ [][(CallReturns /\ call.op = "get" /\ hostPc' = "idle" /\ lastResult'.res = "Ok") =>
            /\ resultQ /= <<>>
            /\ Head(resultQ).type = "HandData"
            /\ lastResult'.hand = call.hand
            /\ lastResult'.val = synced[PathOfHand(call.hand)]]_vars

C3_Witness ==
    /\ hostPc = "idle"
    /\ nCalls = 3
    /\ lastResult.op = "get"
    /\ lastResult.hand = "Right"
    /\ lastResult.res = "Ok"
    /\ lastResult.val = synced[RightPath]
    /\ lastResult.val /= synced[LeftPath]
    /\ synced[LeftPath] /= Unsynced

\* C4: at most one request is in flight: requests sent minus replies consumed is
\* 0 or 1, a request is outstanding only while a call waits for it, and the two
\* channels together never hold more than one message, whichever caller calls.
C4_OneInFlight ==
    /\ sent - consumed \in {0, 1}
    /\ Len(notifyQ) + Len(resultQ) <= 1
    /\ hostPc = "recv" => sent - consumed = 1 /\ call.caller \in Callers
    /\ (hostPc = "idle" /\ ChildRunning) => sent = consumed /\ notifyQ = <<>> /\ resultQ = <<>>

C4_Witness ==
    /\ hostPc = "recv"
    /\ call.op = "get"
    /\ call.caller = 2
    /\ sent = 3
    /\ consumed = 2
    /\ resultQ /= <<>>

\* The child ended on its own account: outside the runs C5 speaks of.
ChildDied == childPc \in {"aborted", "exited", "panicProtocol"}

\* C5: with a spawned child that completes the handshake and does not die, and a
\* runtime that reports READY, a sync_actions() call returns Ok(()), a
\* get_action_states(Left) call returns Ok(states), and a release of the
\* connector ends with the child no longer running.
C5_SequentialScenario ==
    /\ (hostPc = "recv" /\ call.op = "sync")
         ~> \/ hostPc = "idle" /\ lastResult = [op |-> "sync", res |-> "Ok"]
            \/ ChildDied
            \/ hostPc = "gone"
    /\ (hostPc = "recv" /\ call.op = "get" /\ call.hand = "Left")
         ~> \/ /\ hostPc = "idle"
               /\ lastResult.op = "get"
               /\ lastResult.hand = "Left"
               /\ lastResult.res = "Ok"
            \/ ChildDied
            \/ hostPc = "gone"
    /\ (hostPc = "dropWait") ~> (hostPc = "dropped" /\ ~ChildRunning)

C5_Witness ==
    /\ hostPc = "dropped"
    /\ nCalls = 2
    /\ consumed = 2
    /\ lastResult.op = "get"
    /\ lastResult.hand = "Left"
    /\ lastResult.res = "Ok"
    /\ lastResult.val /= Unsynced
    /\ childPc = "killed"
    /\ proc = "reaped"

\* C6: releasing an established connection issues the kill first and the wait
\* second, from whatever state the child is in, and once the release is over the
\* child is neither running nor an unreaped zombie.
C6_ReleaseKillsThenReaps ==
    /\ (hostPc = "idle" /\ connection = "Some") => ENABLED HostDrop
    /\ hostPc = "dropWait" =>
         /\ connection = "Some"
         /\ Len(dropLog) = 1
         /\ dropLog[1] \in {"kill", "kill_failed"}
    /\ (hostPc = "dropped" /\ connection = "Some") =>
         /\ Len(dropLog) = 2
         /\ dropLog[1] \in {"kill", "kill_failed"}
         /\ dropLog[2] = "wait"
         /\ proc \in {"reaped", "gone"}

C6_Witness ==
    /\ hostPc = "dropped"
    /\ connection = "Some"
    /\ dropLog = <<"kill", "wait">>
    /\ childPc = "killed"
    /\ proc = "reaped"
    /\ notifyQ = <<>>
    /\ xrSession = "IDLE"

\* C7: once the child has exited on an established connection, a call that
\* begins returns Disconnected at its send, and a call that waits for a reply
\* the child never sent returns Disconnected at its recv: no panic, no Ok, and
\* the wait always ends.
C7_ChildExitIsDisconnected ==
    /\ [][(CallBegins /\ connection = "Some" /\ ~ChildRunning) =>
            /\ hostPc' = "idle"
            /\ lastResult'.res = Disconnected]_vars
    /\ [][(hostPc = "recv" /\ hostPc' \notin {"recv", "gone"}
             /\ ~ChildRunning /\ resultQ = <<>>) =>
            /\ hostPc' = "idle"
            /\ lastResult'.res = Disconnected]_vars
    /\ (hostPc = "recv" /\ ~ChildRunning) ~> (hostPc /= "recv")

C7_Witness ==
    /\ hostPc = "idle"
    /\ connection = "Some"
    /\ childPc = "aborted"
    /\ sent = 1
    /\ consumed = 0
    /\ notifyQ = <<>>
    /\ lastResult = [op |-> "sync", res |-> Disconnected]

\* The constructor waits in accept() and the child has exited without having
\* sent the pair.
ExitedBeforeRendezvous == hostPc = "accept" /\ ~ChildRunning /\ rendezvous /= "sent"

\* C8: when the child exits before the rendezvous is complete, the constructor
\* is not blocked (it has a step to take), and the step it takes ends the wait
\* with a connector without a connection.
C8_ChildExitEndsAccept ==
    /\ [](ExitedBeforeRendezvous => ENABLED HostAccept)
    /\ [][(ExitedBeforeRendezvous /\ hostPc' \notin {"accept", "gone"}) =>
            /\ hostPc' = "idle"
            /\ connection' = "None"]_vars

\* The one legal response to a request.
LegalReply(op) == IF op = "sync" THEN "Ack" ELSE "HandData"

\* C9: with the child's serving loop as the peer, every message the child can
\* receive is SyncActions or GetHand, every reply the host can receive is the
\* legal response to its outstanding request, and neither protocol panic is
\* reached.
C9_NoProtocolViolation ==
    /\ hostPc /= "panicProtocol"
    /\ childPc /= "panicProtocol"
    /\ \A i \in DOMAIN notifyQ : notifyQ[i].type \in {"SyncActions", "GetHand"}
    /\ resultQ /= <<>> =>
         /\ hostPc \in {"recv", "gone"}
         /\ Head(resultQ).type = LegalReply(call.op)

C9_Witness ==
    /\ hostPc = "recv"
    /\ call.op = "get"
    /\ consumed = 2
    /\ resultQ /= <<>>
    /\ Head(resultQ).type = "HandData"

\* The release has logged "Failed to kill child process".
KillFailed == dropLog /= <<>> /\ dropLog[1] = "kill_failed"

\* C10: when the kill fails at the release of an established connection, the
\* release goes on to the wait and ends, with no panic and no error raised.
C10_KillFailureStillWaits ==
    /\ [][(hostPc = "idle" /\ connection = "Some" /\ ~KillOk
             /\ hostPc' \notin {"idle", "recv", "gone"}) =>
            /\ hostPc' = "dropWait"
            /\ dropLog' = <<"kill_failed">>]_vars
    /\ [](KillFailed =>
            /\ hostPc \in {"dropWait", "dropped"}
            /\ hostPc = "dropped" => dropLog = <<"kill_failed", "wait">>)
    /\ (KillFailed /\ hostPc = "dropWait") ~> (hostPc = "dropped")

C10_Witness ==
    /\ hostPc = "dropped"
    /\ dropLog = <<"kill_failed", "wait">>
    /\ proc = "gone"

\* The states of the child's state machine, in their order; the bootstrap before
\* SkeletalInputXr::new counts as Initializing.
ChildState ==
    IF childPc = "none" THEN "NotStarted"
    ELSE IF childPc \in {"start", "connected", "initializing"} THEN "Initializing"
    ELSE IF childPc = "waitingForReady" THEN "WaitingForReady"
    ELSE IF childPc = "attaching" THEN "Attaching"
    ELSE IF childPc \in {"serving", "syncing", "sendAck", "reading"} THEN "Serving"
    ELSE "Terminated"

StateRank(st) ==
    CASE st = "NotStarted" -> 0
      [] st = "Initializing" -> 1
      [] st = "WaitingForReady" -> 2
      [] st = "Attaching" -> 3
      [] st = "Serving" -> 4
      [] st = "Terminated" -> 5

\* The runtime has moved the session to READY (and the child may have begun it).
RuntimeReported == xrSession \in {"READY", "RUNNING"}

\* C11: the child moves through Initializing, WaitingForReady, Attaching, Serving
\* one state at a time (or to Terminated from anywhere); it is past
\* WaitingForReady only once the runtime has reported READY; it sends a reply only
\* in Serving with the session begun; and a request is taken from the
\* notification channel only in Serving.
C11_ChildStateOrder ==
    /\ [][ChildState' /= ChildState =>
            \/ StateRank(ChildState') = StateRank(ChildState) + 1
            \/ ChildState' = "Terminated"]_vars
    /\ [](ChildState \in {"Attaching", "Serving"} => RuntimeReported)
    /\ [](ChildState = "Serving" => xrSession = "RUNNING")
    /\ [][Len(resultQ') > Len(resultQ) =>
            /\ ChildState = "Serving"
            /\ xrSession = "RUNNING"]_vars
    /\ [][Len(notifyQ') < Len(notifyQ) => ChildState = "Serving"]_vars
    /\ [](ChildState \in {"Initializing", "WaitingForReady", "Attaching"} =>
            /\ resultQ = <<>>
            /\ consumed = 0)

\* A request sent while the child still waits for READY sits in the channel.
C11_Witness ==
    /\ hostPc = "recv"
    /\ childPc = "waitingForReady"
    /\ ChildRunning
    /\ xrSession = "IDLE"
    /\ notifyQ = <<SyncActionsMsg>>
    /\ resultQ = <<>>

\* How far the one-shot rendezvous has come.
RendezvousRank ==
    CASE rendezvous = "none" -> 0
      [] rendezvous = "connected" -> 1
      [] rendezvous = "sent" -> 2
      [] rendezvous = "taken" -> 3

\* C12: the pair is sent once, by the child that has connected and has not yet
\* touched the runtime; the host takes it once, and accept() returns the
\* established connection as soon as the pair is there, whatever the child has
\* reached by then.
C12_HandshakeOnceBeforeRuntime ==
    /\ [][rendezvous' /= rendezvous =>
            RendezvousRank' = RendezvousRank + 1]_vars
    /\ [][(rendezvous' = "sent" /\ rendezvous /= "sent") =>
            /\ childPc = "connected"
            /\ childPc' = "initializing"
            /\ xrSession = "none"
            /\ connection = "None"]_vars
    /\ [][(rendezvous' = "taken" /\ rendezvous /= "taken") =>
            /\ hostPc = "accept"
            /\ hostPc' = "idle"
            /\ connection' = "Some"]_vars
    /\ [](xrSession /= "none" => rendezvous \in {"sent", "taken"})
    /\ [](connection = "Some" <=> rendezvous = "taken")
    /\ []((hostPc = "accept" /\ rendezvous = "sent") => ENABLED HostAccept)

\* The constructor has returned while the child has not yet created its session.
C12_Witness ==
    /\ hostPc = "idle"
    /\ connection = "Some"
    /\ rendezvous = "taken"
    /\ childPc = "initializing"
    /\ ChildRunning
    /\ xrSession = "none"

\* The one event that ends the wait, and a turn of the loop that took an event.
ReadyEvent == [kind |-> "SessionStateChanged", state |-> "READY"]
PollTakes == childPc = "waitingForReady" /\ Len(xrEvents') < Len(xrEvents)

\* C13: the child leaves WaitingForReady for Attaching only by polling the
\* SessionStateChanged event with state READY; a poll that finds no event, an
\* event of another kind or another session state leaves it in WaitingForReady,
\* the event being dropped.
C13_OnlyReadyEndsPolling ==
    /\ [][(childPc = "waitingForReady"
             /\ ChildState' \notin {"WaitingForReady", "Terminated"}) =>
            /\ xrEvents /= <<>>
            /\ Head(xrEvents) = ReadyEvent
            /\ xrEvents' = Tail(xrEvents)
            /\ childPc' = "attaching"]_vars
    /\ [][(PollTakes /\ Head(xrEvents) /= ReadyEvent) =>
            /\ xrEvents' = Tail(xrEvents)
            /\ childPc' = "waitingForReady"]_vars
    /\ [][(PollTakes /\ Head(xrEvents) = ReadyEvent) => childPc' = "attaching"]_vars

\* The IDLE state change and the other event have been polled and dropped; READY
\* is next.
C13_Witness ==
    /\ childPc = "waitingForReady"
    /\ ChildRunning
    /\ nOther = 1
    /\ xrEvents = <<ReadyEvent>>

\* The host waits for a reply from a child that waits for READY.
Stalled == hostPc = "recv" /\ childPc = "waitingForReady" /\ ChildRunning

\* C14: a stalled request stays stalled for as long as the runtime has not
\* reported READY, the child has not died and the host process lives: the child
\* keeps polling, the call does not return, and with the event queue drained
\* neither the host thread nor the child has any step left that changes anything.
C14_NoTimeoutEndsTheStall ==
    /\ [][(Stalled /\ xrSession' = "IDLE" /\ ChildRunning' /\ hostPc' /= "gone") =>
            /\ Stalled'
            /\ call' = call
            /\ lastResult' = lastResult
            /\ resultQ' = <<>>]_vars
    /\ []((Stalled /\ xrSession = "IDLE" /\ xrEvents = <<>>) =>
            ~ENABLED <<HostStep \/ ChildStep>>_vars)

C14_Witness ==
    /\ Stalled
    /\ xrSession = "IDLE"
    /\ xrEvents = <<>>
    /\ nOther = MaxOther
    /\ call.op = "get"
    /\ notifyQ /= <<>>

\* Requests the child has taken from the notification channel, replies it has
\* put on the result channel, and the steps that do either.
Taken == sent - Len(notifyQ)
Replied == consumed + Len(resultQ)
TakesRequest == Len(notifyQ') < Len(notifyQ)
SendsReply == Len(resultQ') > Len(resultQ)
Handling == childPc \in {"syncing", "sendAck", "reading"}
Reply == resultQ[Len(resultQ)]

\* C15: the serving child holds at most one request; it replies only to the
\* request it holds, with one message of the matching variant, and holds none
\* afterwards; a SyncActions request gets one call of the runtime's xrSyncActions
\* and its Ack is sent in a later step, after that call.
C15_OneReplyPerRequest ==
    /\ [](/\ Replied <= Taken
          /\ Taken <= Replied + 1
          /\ (ChildRunning /\ childPc = "serving") => (Taken = Replied /\ cur = NoMsg)
          /\ (ChildRunning /\ Handling) => (Taken = Replied + 1 /\ cur /= NoMsg)
          /\ childPc = "syncing" => cur.type = "SyncActions"
          /\ childPc = "sendAck" => (cur.type = "SyncActions" /\ nSync >= 1)
          /\ childPc = "reading" => cur.type = "GetHand")
    /\ [][TakesRequest =>
            /\ childPc = "serving" /\ cur = NoMsg
            /\ notifyQ' = Tail(notifyQ)
            /\ resultQ' = resultQ
            /\ nSync' = nSync]_vars
    /\ [][SendsReply =>
            /\ cur /= NoMsg /\ cur' = NoMsg
            /\ childPc' = "serving"
            /\ notifyQ' = notifyQ
            /\ nSync' = nSync
            /\ resultQ' = Append(resultQ, Reply')
            /\ Reply'.type = (IF cur.type = "SyncActions" THEN "Ack" ELSE "HandData")
            /\ Reply'.type = "Ack" => childPc = "sendAck"]_vars
    /\ [][nSync' /= nSync =>
            /\ nSync' = nSync + 1
            /\ childPc = "syncing" /\ childPc' = "sendAck"
            /\ cur' = cur
            /\ resultQ' = resultQ]_vars
    /\ [][(childPc = "syncing" /\ childPc' /= "syncing" /\ ChildRunning') =>
            nSync' = nSync + 1]_vars

C15_Witness ==
    /\ ChildRunning
    /\ childPc = "serving"
    /\ nSync = 2
    /\ Taken = 3
    /\ Replied = 3
    /\ resultQ = <<AckMsg>>

\* C16: while it handles a GetHand request the child calls xrSyncActions before
\* it sends the data, so every HandData reply follows a synchronization made
\* for that request, and a get_action_states() that returns states was preceded
\* by one even when sync_actions() was never called.
C16_GetHandSyncsFirst ==
    /\ [][(cur.type = "GetHand" /\ SendsReply) => nSync' = nSync + 1]_vars
    /\ []((lastResult.op = "get" /\ lastResult.res /= Disconnected) => nSync >= 1)

\* C17: when the serving loop takes a HandData or an Ack from the notification
\* channel the child aborts in that step, with no reply sent and no runtime
\* call made; afterwards it sends no reply, takes no request that is still
\* queued and stays terminated.
C17_NonRequestAbortsChild ==
    /\ [][(TakesRequest /\ Head(notifyQ).type \in {"HandData", "Ack"}) =>
            /\ childPc = "serving"
            /\ childPc' = "panicProtocol"
            /\ proc' = "zombie"
            /\ resultQ' = resultQ
            /\ nSync' = nSync /\ synced' = synced]_vars
    /\ [][childPc = "panicProtocol" =>
            /\ childPc' = "panicProtocol"
            /\ ~ChildRunning'
            /\ resultQ' = resultQ
            /\ notifyQ' = notifyQ
            /\ nSync' = nSync]_vars
    /\ [](childPc = "panicProtocol" => ~ENABLED <<ChildStep>>_vars)

C17_Witness ==
    /\ childPc = "panicProtocol"
    /\ proc = "zombie"
    /\ Taken = 2
    /\ resultQ = <<AckMsg>>
    /\ notifyQ = <<GetHandMsg(TRUE)>>

\* recv() at the top of the loop has nothing to deliver and the host's sender is
\* closed; a reply is about to be sent and the host's receiver is closed.
RecvFails == ChildRunning /\ childPc = "serving" /\ notifyQ = <<>> /\ HostEnded
SendFails == ChildRunning /\ childPc \in {"sendAck", "reading"} /\ HostEnded

\* C18: when the serving loop's recv() fails on the closed notification channel,
\* or the send of Ack or HandData fails, the child's next step is the normal
\* exit of main: no panic, no reply queued, no request taken; the step is there
\* to be taken, the exited child does nothing more, and the loop is left this
\* way only with the host's endpoints closed.
C18_ClosedChannelExitsCleanly ==
    /\ [][((RecvFails \/ SendFails) /\ ChildStep) =>
            /\ childPc' = "exited"
            /\ proc' = "zombie"
            /\ resultQ' = resultQ
            /\ notifyQ' = notifyQ
            /\ nSync' = nSync]_vars
    /\ []((RecvFails \/ SendFails) => ENABLED <<ChildStep>>_vars)
    /\ [][childPc' = "exited" /\ childPc /= "exited" => (RecvFails \/ SendFails)]_vars
    /\ [][childPc = "exited" =>
            /\ childPc' = "exited"
            /\ ~ChildRunning'
            /\ resultQ' = resultQ
            /\ notifyQ' = notifyQ]_vars
    /\ [](childPc = "exited" => (HostEnded /\ ~ENABLED <<ChildStep>>_vars))

C18_Witness ==
    /\ childPc = "exited"
    /\ hostPc = "gone"
    /\ call.op = "sync"
    /\ nSync = 2
    /\ Taken = 2
    /\ Replied = 1
    /\ notifyQ = <<>>

\* The last call on the connector ended with Disconnected.
Errored == lastResult.op /= "none" /\ lastResult.res = Disconnected

\* C19: an established connection stays in the connector through every step,
\* errors included: each call on it attempts a send, also after a call that
\* ended with Disconnected; the release of a connector whose last call failed
\* still kills and then waits for the child; a connector without a connection
\* has no child and its release issues neither.
C19_ErrorKeepsConnection ==
    /\ [][connection = "Some" => connection' = "Some"]_vars
    /\ [][(CallBegins /\ connection = "Some") => sendTries' = sendTries + 1]_vars
    /\ [][(CallBegins /\ connection = "None") => (sendTries' = sendTries /\ sendTries = 0)]_vars
    /\ [](connection = "Some" => sendTries = nCalls)
    /\ []((Errored /\ connection = "Some" /\ hostPc = "idle") => ENABLED HostDrop)
    /\ [][(Errored /\ connection = "Some" /\ hostPc = "idle" /\ hostPc' = "dropWait") =>
            /\ Len(dropLog') = 1
            /\ dropLog'[1] = (IF proc = "gone" THEN "kill_failed" ELSE "kill")
            /\ ~ChildRunning']_vars
    /\ []((Errored /\ connection = "Some" /\ hostPc = "dropped") =>
            /\ Len(dropLog) = 2 /\ dropLog[2] = "wait"
            /\ proc \in {"reaped", "gone"})
    /\ []((connection = "None" /\ hostPc = "dropped") => (dropLog = <<>> /\ proc = "none"))

C19_Witness ==
    /\ hostPc = "dropped"
    /\ connection = "Some"
    /\ Errored
    /\ nCalls = 3
    /\ sendTries = 3
    /\ sent = 1
    /\ dropLog = <<"kill", "wait">>
    /\ proc = "reaped"

====
